---------------------------- MODULE Spec2Model ----------------------------
(* State-machine model of qoc_ag's numerical core:                         *)
(*   expmat_vec_mul / get_s      (action of the matrix exponential)        *)
(*   expmat_der_vec_mul          (augmented propagator derivative)         *)
(*   expm_pade                   (dense exponential, Pade order selection) *)
(*   _expm_vjp_                  (reverse-mode rule of the exponential)    *)
(*   TargetStateInfidelityTime.gradient / update_state_forw (pool map)     *)
(* Real arithmetic is modelled exactly: a number is a reduced fraction     *)
(* <<n, d>> with d > 0.  Decimal literals of the source (1e-16, 2**-53,    *)
(* THETA) are kept digit for digit as base-10^4 digit strings and are only *)
(* ever compared with fractions, as the code only ever compares them.      *)
EXTENDS Integers, Sequences, FiniteSets, TLC

(***************************************************************************)
(* Bounds of the model.                                                    *)
(***************************************************************************)
\* largest number of control Hamiltonians in E
MaxK == 2
\* largest off-diagonal weight k of the operators k*[[0,1],[0,0]]
MaxScale == 4
\* largest diagonal value c of the operators c*I and c*I + [[0,1],[0,0]]
MaxC == 1
\* the s at which the model stops counting get_s's iterations (see GetSStep)
MaxS == 6
\* largest number of truncation-loop iterations the model follows
MaxIter == 8
\* largest number of states handed to the pool map
MaxStates == 3
\* size of the matrices given to the reverse-mode rule
VjpSize == 2
\* largest absolute entry of the matrices given to the reverse-mode rule
MaxEntry == 1
\* the operators that need scaling have one-norm 6 * 2^k, k in 0..MaxDoubling
MaxDoubling == 2

(***************************************************************************)
(* Exact fractions.                                                        *)
(***************************************************************************)
Abs(x) == IF x < 0 THEN -x ELSE x

RECURSIVE Gcd(_, _)
Gcd(a, b) == IF b = 0 THEN a ELSE Gcd(b, a % b)

\* the reduced fraction n/d, d > 0
Frac(n, d) ==
    LET g == Gcd(Abs(n), d)
    IN  IF n = 0 THEN <<0, 1>> ELSE <<n \div g, d \div g>>

R(n) == <<n, 1>>
Zero == <<0, 1>>
One == <<1, 1>>

RAdd(a, b) ==
    LET g == Gcd(a[2], b[2])
    IN  Frac(a[1] * (b[2] \div g) + b[1] * (a[2] \div g), (a[2] \div g) * b[2])

RNeg(a) == <<-a[1], a[2]>>
RSub(a, b) == RAdd(a, RNeg(b))

RMul(a, b) ==
    LET g1 == Gcd(Abs(a[1]), b[2])
        g2 == Gcd(Abs(b[1]), a[2])
    IN  IF a[1] = 0 \/ b[1] = 0 THEN Zero
        ELSE <<(a[1] \div g1) * (b[1] \div g2), (a[2] \div g2) * (b[2] \div g1)>>

\* a / k for an integer k > 0
RDivInt(a, k) == RMul(a, <<1, k>>)

RAbs(a) == <<Abs(a[1]), a[2]>>
RLt(a, b) == a[1] * b[2] < b[1] * a[2]
RLe(a, b) == a[1] * b[2] <= b[1] * a[2]
RMax(a, b) == IF RLt(a, b) THEN b ELSE a
\* np.floor of a non-negative fraction
RFloor(a) == a[1] \div a[2]

(***************************************************************************)
(* Decimal literals.  [hi |-> p, ch |-> <<c1, c2, ...>>] is the number     *)
(* c1 * W^p + c2 * W^(p-1) + ... with W = 10^4 and every ci in 0..W-1.     *)
(***************************************************************************)
W == 10 ^ 4

RECURSIVE Shr(_, _)
Shr(f, k) == IF k <= 0 THEN f ELSE Shr(f \div W, k - 1)

\* remainder of the long division of x = n/d after k fractional digits
RECURSIVE Rem(_, _)
Rem(x, k) == IF k = 0 THEN x[1] % x[2] ELSE (Rem(x, k - 1) * W) % x[2]

\* base-W digit of the fraction x >= 0 at position p (weight W^p)
RatDigit(x, p) ==
    IF p >= 0 THEN Shr(x[1] \div x[2], p) % W
    ELSE (Rem(x, (-p) - 1) * W) \div x[2]

DecDigit(b, p) ==
    LET k == b.hi - p + 1
    IN  IF k \in 1..Len(b.ch) THEN b.ch[k] ELSE 0

Min2(a, b) == IF a < b THEN a ELSE b
Max2(a, b) == IF a < b THEN b ELSE a

RECURSIVE CmpFrom(_, _, _, _)
CmpFrom(x, b, p, lo) ==
    IF p < lo THEN (IF Rem(x, -lo) # 0 THEN 1 ELSE 0)
    ELSE IF RatDigit(x, p) < DecDigit(b, p) THEN -1
    ELSE IF RatDigit(x, p) > DecDigit(b, p) THEN 1
    ELSE CmpFrom(x, b, p - 1, lo)

\* sign of x - b for a fraction x >= 0 and a decimal literal b
Cmp(x, b) == CmpFrom(x, b, Max2(2, b.hi), Min2(0, b.hi - Len(b.ch) + 1))

\* b * 10^(4k)
ShiftDec(b, k) == [hi |-> b.hi + k, ch |-> b.ch]

(***************************************************************************)
(* Vectors are sequences of fractions, matrices sequences of rows.         *)
(***************************************************************************)
RECURSIVE SumSeq(_, _)
\* q[1] + ... + q[k]
SumSeq(q, k) == IF k = 0 THEN Zero ELSE RAdd(SumSeq(q, k - 1), q[k])

RECURSIVE MaxSeq(_, _)
MaxSeq(q, k) == IF k = 0 THEN Zero ELSE RMax(MaxSeq(q, k - 1), q[k])

\* TLC evaluates [k \in 1..n |-> e] lazily, entry by entry and again at every
\* use; Vec and Mat turn such a function into a sequence of values once.
Vec(f, n) == SubSeq(f, 1, n)
Mat(f, n) == SubSeq([r \in 1..n |-> SubSeq(f[r], 1, Len(f[r]))], 1, n)

ZeroVec(n) == Vec([k \in 1..n |-> Zero], n)
ZeroMat(n) == Vec([r \in 1..n |-> ZeroVec(n)], n)
VecAdd(x, y) == Vec([k \in 1..Len(x) |-> RAdd(x[k], y[k])], Len(x))
VecDivInt(x, c) == Vec([k \in 1..Len(x) |-> RDivInt(x[k], c)], Len(x))
\* A.dot(B)
Dot(X, Bv) ==
    Vec([r \in 1..Len(X) |->
           SumSeq(Vec([k \in 1..Len(Bv) |-> RMul(X[r][k], Bv[k])], Len(Bv)), Len(Bv))],
        Len(X))
MatMul(X, Y) ==
    Mat([r \in 1..Len(X) |-> [c \in 1..Len(Y[1]) |->
           SumSeq(Vec([k \in 1..Len(Y) |-> RMul(X[r][k], Y[k][c])], Len(Y)), Len(Y))]],
        Len(X))
MatAdd(X, Y) == Vec([r \in 1..Len(X) |-> VecAdd(X[r], Y[r])], Len(X))
MatScale(X, q) ==
    Mat([r \in 1..Len(X) |-> [c \in 1..Len(X[r]) |-> RMul(X[r][c], q)]], Len(X))

\* _exact_inf_norm of a matrix: the largest absolute row sum (both storage formats)
ExactInfNorm(X) ==
    MaxSeq(Vec([r \in 1..Len(X) |->
                  SumSeq(Vec([c \in 1..Len(X[r]) |-> RAbs(X[r][c])], Len(X[r])),
                         Len(X[r]))], Len(X)), Len(X))

\* _exact_inf_norm of a flattened state: the largest absolute entry
ExactInfNormVec(Bv) == MaxSeq(Vec([k \in 1..Len(Bv) |-> RAbs(Bv[k])], Len(Bv)), Len(Bv))

\* trace(A)
Trace(X) == SumSeq(Vec([k \in 1..Len(X) |-> X[k][k]], Len(X)), Len(X))

\* ident_like(A)
IdentLike(X) ==
    Mat([r \in 1..Len(X) |-> [c \in 1..Len(X) |-> IF r = c THEN One ELSE Zero]], Len(X))

(***************************************************************************)
(* Literals of the source.                                                 *)
(***************************************************************************)
\* tol == None
NoneTol == [hi |-> 0, ch |-> <<>>]
IsNone(t) == t.ch = <<>>
\* 2**-53 = 1.1102230246251565404236316680908203125e-16
TwoM53 ==
    [hi |-> -4,
     ch |-> <<1, 1102, 2302, 4625, 1565, 4042, 3631, 6680, 9082, 312, 5000>>]
\* 1e-16, also 10 ** -16
Dec1em16 == [hi |-> -4, ch |-> <<1>>]
\* 10 ** 16
Dec1e16 == [hi |-> 4, ch |-> <<1>>]

(***************************************************************************)
(* get_s: one evaluation of the body of its while loop for a given s.      *)
(***************************************************************************)
RECURSIVE MaxTermLoop(_, _, _, _)
\* for i in range(i, stop): max_term = max_term * norm_A / i; break at >= 10**16
MaxTermLoop(norm_A, i, stop, max_term) ==
    IF i >= stop THEN max_term
    ELSE LET t == RDivInt(RMul(max_term, norm_A), i)
         IN  IF Cmp(t, Dec1e16) >= 0 THEN t
             ELSE MaxTermLoop(norm_A, i + 1, stop, t)

NormOver(a, s) == RDivInt(a, s)
MaxTermNotation(a, s) == RFloor(NormOver(a, s))
MaxTerm(a, s) == MaxTermLoop(NormOver(a, s), 1, MaxTermNotation(a, s), One)

\* 10 ** -16 * max_term <= tol
GetSExit(a, s, t) == Cmp(MaxTerm(a, s), ShiftDec(t, -Dec1em16.hi)) <= 0

(***************************************************************************)
(* expmat_der_vec_mul: the auxiliary matrix and vector.                    *)
(* Rows and columns of blocks are numbered 0..K as in the source; E[i] of  *)
(* the source is E[i + 1] here.  None is the empty sequence.               *)
(***************************************************************************)
None == <<>>
ZerosLike(X) == ZeroMat(Len(X))

\* DenseRow with the control taken by the column index: E[j - 1] for E[i]
DenseRowColumnControl(X, Ec, i) ==
    LET K == Len(Ec)
    IN  <<IF i = 0 THEN X ELSE ZerosLike(X)>> \o
        Vec([jj \in 1..K |->
               IF jj = i /\ i # 0 THEN X
               ELSE IF jj = K /\ jj # i THEN Ec[jj]
               ELSE ZerosLike(X)], K)

\* the row raw_matrix of block row i, dense branch (np.zeros_like blocks)
DenseRow(X, Ec, i) ==
    LET K == Len(Ec)
    IN  <<IF i = 0 THEN X ELSE ZerosLike(X)>> \o
        Vec([jj \in 1..K |->
               IF jj = i /\ i # 0 THEN X
               ELSE IF jj = K /\ jj # i THEN Ec[i + 1]
               ELSE ZerosLike(X)], K)

\* the row raw_matrix of block row i, sparse branch (None blocks)
SparseRow(X, Ec, i) ==
    LET K == Len(Ec)
    IN  <<IF i = 0 THEN X ELSE None>> \o
        Vec([jj \in 1..K |->
               IF jj = i /\ i # 0 THEN X
               ELSE IF jj = K /\ jj # i THEN Ec[i + 1]
               ELSE None], K)

DenseGrid(X, Ec) == Vec([r \in 1..(Len(Ec) + 1) |-> DenseRow(X, Ec, r - 1)], Len(Ec) + 1)
SparseGrid(X, Ec) == Vec([r \in 1..(Len(Ec) + 1) |-> SparseRow(X, Ec, r - 1)], Len(Ec) + 1)

\* np.block of a square grid of n x n blocks
NpBlock(grid, n) ==
    Mat([r \in 1..(Len(grid) * n) |-> [c \in 1..(Len(grid) * n) |->
           grid[((r - 1) \div n) + 1][((c - 1) \div n) + 1][((r - 1) % n) + 1][((c - 1) % n) + 1]]],
        Len(grid) * n)

\* scipy.sparse.bmat: a None block is an all-zero block of the shape of its row and column
Bmat(grid, n) ==
    NpBlock(Mat([r \in 1..Len(grid) |-> [c \in 1..Len(grid) |->
                   IF grid[r][c] = None THEN ZeroMat(n) ELSE grid[r][c]]], Len(grid)), n)

FinalMatrix(X, Ec, sp) ==
    IF sp THEN Bmat(SparseGrid(X, Ec), Len(X)) ELSE NpBlock(DenseGrid(X, Ec), Len(X))

RECURSIVE BlockState(_, _, _)
\* for i in range(k): state = np.block([state0, state])
BlockState(state0, state, k) ==
    IF k = 0 THEN state ELSE BlockState(state0, state0 \o state, k - 1)

RECURSIVE BlockStateBelow(_, _, _)
BlockStateBelow(state0, state, k) ==
    IF k = 0 THEN state ELSE BlockStateBelow(state0, state \o state0, k - 1)

\* AugState with the zero blocks stacked below the state: np.block([state, state0])
AugStateZerosBelow(state, K) == BlockStateBelow(ZeroVec(Len(state)), state, K)

AugState(state, K) == BlockState(ZeroVec(Len(state)), state, K)

\* states.append(state[HILBERT_SIZE*i : HILBERT_SIZE*(i+1)]) for i in range(K + 1)
SliceStates(state, n, K) ==
    Vec([b \in 1..(K + 1) |-> SubSeq(state, n * (b - 1) + 1, n * b)], K + 1)

(***************************************************************************)
(* expmat_vec_mul: the pieces of its loops.                                *)
(***************************************************************************)
\* the shift by trace(A) instead of trace(A) / n
ShiftAByTrace(X) == MatAdd(X, MatScale(IdentLike(X), RNeg(Trace(X))))

\* A - mu * ident with mu = trace(A) / float(n)
ShiftA(X) ==
    LET mu == RDivInt(Trace(X), Len(X))
    IN  MatAdd(X, MatScale(IdentLike(X), RNeg(mu)))

\* NextTerm without the division by coeff
NextTermNoCoeff(X, Bv, sc, jj) == Dot(X, Bv)

\* B = A.dot(B) / coeff with coeff = s * (j + 1)
NextTerm(X, Bv, sc, jj) == VecDivInt(Dot(X, Bv), sc * (jj + 1))

\* (c1 + c2) < tol, for a state given in units of 10^(-4 * ve)
BelowTol(c, t, ve) == Cmp(c, ShiftDec(t, ve)) < 0

RECURSIVE InnerLoopOneShort(_, _, _, _, _, _)
\* the inner loop over range(jj, mm - 1): its last term is left out
InnerLoopOneShort(X, Bv, Fv, sc, jj, mm) ==
    IF jj >= mm - 1 THEN <<Bv, Fv, 0>>
    ELSE LET B1 == NextTerm(X, Bv, sc, jj)
             r  == InnerLoopOneShort(X, B1, VecAdd(Fv, B1), sc, jj + 1, mm)
         IN  <<r[1], r[2], r[3] + 1>>

RECURSIVE InnerLoop(_, _, _, _, _, _)
\* for j in range(jj, mm): B = A.dot(B) / coeff; F = F + B.  Returns <<B, F, n>>
\* with n the number of products A.dot(B) of the loop.
InnerLoop(X, Bv, Fv, sc, jj, mm) ==
    IF jj >= mm THEN <<Bv, Fv, 0>>
    ELSE LET B1 == NextTerm(X, Bv, sc, jj)
             r  == InnerLoop(X, B1, VecAdd(Fv, B1), sc, jj + 1, mm)
         IN  <<r[1], r[2], r[3] + 1>>

(***************************************************************************)
(* The two functions as values: what a call returns, with the s and m it   *)
(* chose.  The loops are followed as far as the actions below follow them. *)
(***************************************************************************)
RECURSIVE GetSFrom(_, _, _)
GetSFrom(an, t, sc) ==
    IF GetSExit(an, sc, t) \/ sc >= MaxS THEN sc ELSE GetSFrom(an, t, sc + 1)

\* get_s(A, tol) for the norm an of A
GetS(an, t) == GetSFrom(an, t, 1)

RECURSIVE SeriesFrom(_, _, _, _, _, _, _, _)
\* the truncation loop from iteration jj on: <<F, m>>
SeriesFrom(X, Bv, Fv, cc, sc, jj, t, ve) ==
    LET B1 == NextTerm(X, Bv, sc, jj)
        c2 == ExactInfNormVec(B1)
        F1 == VecAdd(Fv, B1)
    IN  IF BelowTol(RAdd(cc, c2), t, ve) \/ jj + 1 >= MaxIter THEN <<F1, jj + 1>>
        ELSE SeriesFrom(X, B1, F1, c2, sc, jj + 1, t, ve)

RECURSIVE Passes(_, _, _, _, _)
\* for i in range(ii, s): the inner loop from B = F, then B = F
Passes(X, Fv, sc, mm, ii) ==
    IF ii >= sc THEN Fv
    ELSE Passes(X, InnerLoop(X, Fv, Fv, sc, 0, mm)[2], sc, mm, ii + 1)

\* expmat_vec_mul(A, B, tol) for a state in units of 10^(-4 * ve)
ExpmatVecMul(X, Bv, t, ve) ==
    LET X1 == ShiftA(X)
        t1 == IF IsNone(t) THEN Dec1em16 ELSE t
        sc == GetS(ExactInfNorm(X1), t1)
        r  == SeriesFrom(X1, Bv, Bv, ExactInfNormVec(Bv), sc, 0, t1, ve)
    IN  [F |-> Passes(X1, r[1], sc, r[2], 1), s |-> sc, m |-> r[2]]

\* expmat_der_vec_mul(A, E, tol, state)
ExpmatDerVecMul(X, Ec, t, st, ve, sp) ==
    LET t1 == IF IsNone(t) THEN TwoM53 ELSE t
        r  == ExpmatVecMul(FinalMatrix(X, Ec, sp), AugState(st, Len(Ec)), t1, ve)
    IN  SliceStates(r.F, Len(st), Len(Ec))

(***************************************************************************)
(* Inputs.                                                                 *)
(***************************************************************************)
\* c*I + k*[[0,1],[0,0]]: its trace-free part is nilpotent, its series finite
MatCI(c, k) == <<<<R(c), R(k)>>, <<Zero, R(c)>>>>
NilMats ==
    {MatCI(0, k) : k \in 0..MaxScale} \cup {MatCI(c, k) : c \in 1..MaxC, k \in 0..1}
Sym == <<<<Zero, One>>, <<One, Zero>>>>
Rot == <<<<Zero, One>>, <<R(-1), Zero>>>>
OscMats == {Sym, Rot}
Mats == NilMats \cup OscMats
Ctrls == {MatCI(0, 1), Sym}
CtrlSeqs == UNION {[1..k -> Ctrls] : k \in 0..MaxK}
Vecs == {<<Zero, Zero>>, <<One, Zero>>, <<Zero, One>>, <<<<7, 10>>, Zero>>}
Tol1em17 == [hi |-> -5, ch |-> <<1000>>]
TolHalf == [hi |-> -1, ch |-> <<5000>>]
Tols == {NoneTol, TwoM53, Dec1em16, Tol1em17, TolHalf}
\* the state is v0 * 10^(-4 * vexp): entries of order 1, or of order 1e-16
Units == {0, -Dec1em16.hi}

VARIABLES
    entry,      \* which function is called: "action" (expmat_vec_mul) or "der"
    A0,         \* argument A
    E,          \* argument E (der)
    tolArg,     \* argument tol, possibly None
    v0,         \* argument B / state, in units of 10^(-4 * vexp)
    vexp,
    sparse,     \* isspmatrix(A)
    pc,         \* position: "call", "shift", "get_s", "series", "passes", "done"
    tol,        \* local tol
    A,          \* local A of expmat_vec_mul
    B, F, c1, j, m, s, i,
    a,          \* local a of get_s
    max_term_notation,
    states,     \* the value returned
    dots        \* how many products A.dot(B) expmat_vec_mul has computed

\* expm_pade
VARIABLES
    em_pc,          \* "start", "orders", "scale", "pade", "solve", "square", "done", "raised"
    em_a0,          \* argument a
    em_a,           \* local a (rescaled when scaling is needed)
    one_norm_,
    order_idx,      \* position of the loop "for pade_order_ in PADE_ORDERS"
    pade_order,     \* 0 is None
    scale,
    pade_called,    \* the order of the PADE function that was called, 0 before
    r_exponent,     \* r approximates exp(r_exponent * em_a0); <<0, 1>> before the solve
    squarings       \* number of executions of r = anp.matmul(r, r)

\* _expm_vjp_
VARIABLES
    vj_pc,          \* "loop", "done"
    dfinal_dexpm, exp_matrix, matrix_size,
    vi, vj,         \* the loop variables i and j
    dfinal_dmatrix,
    writes          \* writes[i][j]: how often dfinal_dmatrix[i, j] was assigned

\* TargetStateInfidelityTime.gradient and update_state_forw
VARIABLES
    bt_pc,          \* "call", "mapping", "collect", "done"
    method,         \* "gradient" or "update_state_forw"
    back_states,    \* self.back_states
    final_states,   \* self.final_states
    states_mul,
    pending,        \* pool: indices of states_mul whose call has not completed
    slots,          \* pool: slots[k] is the result of the call on states_mul[k]
    order,          \* pool: the indices in the order their calls completed
    map_states,     \* the list map(func, states_mul) returned
    b_state, new_state,
    neglect_relative_phase,
    grads,
    given_states    \* the states the method was called on (never assigned by the code)

inputs == <<entry, A0, E, tolArg, v0, vexp, sparse>>
actVars == <<entry, A0, E, tolArg, v0, vexp, sparse, pc, tol, A, B, F, c1, j, m, s, i,
             a, max_term_notation, states, dots>>
expmVars == <<em_pc, em_a0, em_a, one_norm_, order_idx, pade_order, scale, pade_called,
              r_exponent, squarings>>
vjpVars == <<vj_pc, dfinal_dexpm, exp_matrix, matrix_size, vi, vj, dfinal_dmatrix, writes>>
batchVars == <<bt_pc, method, back_states, final_states, states_mul, pending, slots, order,
               map_states, b_state, new_state, neglect_relative_phase, grads,
               given_states>>
vars == <<actVars, expmVars, vjpVars, batchVars>>

\* the variables of a part of the program that a specification does not run
IdleAct ==
    /\ entry = "none" /\ A0 = <<>> /\ E = <<>> /\ tolArg = NoneTol /\ v0 = <<>>
    /\ vexp = 0 /\ sparse = FALSE /\ pc = "idle" /\ tol = NoneTol
    /\ A = <<>> /\ B = <<>> /\ F = <<>> /\ c1 = Zero /\ a = Zero
    /\ j = 0 /\ m = 0 /\ s = 0 /\ i = 0 /\ max_term_notation = 0 /\ states = <<>>
    /\ dots = 0
IdleExpm ==
    /\ em_pc = "idle" /\ em_a0 = <<>> /\ em_a = <<>> /\ one_norm_ = Zero
    /\ order_idx = 0 /\ pade_order = 0 /\ scale = 0 /\ pade_called = 0
    /\ r_exponent = Zero /\ squarings = 0
IdleVjp ==
    /\ vj_pc = "idle" /\ dfinal_dexpm = <<>> /\ exp_matrix = <<>> /\ matrix_size = 0
    /\ vi = 0 /\ vj = 0 /\ dfinal_dmatrix = <<>> /\ writes = <<>>
IdleBatch ==
    /\ bt_pc = "idle" /\ method = "none" /\ back_states = <<>> /\ final_states = <<>>
    /\ states_mul = <<>> /\ pending = {} /\ slots = <<>> /\ order = <<>>
    /\ map_states = <<>> /\ b_state = <<>> /\ new_state = <<>>
    /\ neglect_relative_phase = FALSE /\ grads = Zero /\ given_states = <<>>

\* an oscillating operator's series is followed only when it ends within MaxIter terms
Followed(X, t, ve) ==
    X \in NilMats \/ t \in {Tol1em17, TolHalf} \/ ve # 0

InitAct ==
    /\ entry \in {"action", "der"}
    /\ A0 \in Mats
    /\ tolArg \in Tols
    /\ v0 \in Vecs
    /\ vexp \in Units
    /\ Followed(A0, tolArg, vexp)
    /\ E \in (IF entry = "der" THEN CtrlSeqs ELSE {<<>>})
    /\ sparse \in (IF entry = "der" THEN BOOLEAN ELSE {FALSE})
    /\ pc = "call"
    /\ tol = NoneTol
    /\ A = <<>> /\ B = <<>> /\ F = <<>>
    /\ c1 = Zero /\ a = Zero
    /\ j = 0 /\ m = 0 /\ s = 0 /\ i = 0 /\ max_term_notation = 0
    /\ states = <<>>
    /\ dots = 0

\* expmat_vec_mul(A, B, tol) called directly
CallAction ==
    /\ pc = "call" /\ entry = "action"
    /\ A' = A0 /\ B' = v0 /\ tol' = tolArg
    /\ pc' = "shift"
    /\ UNCHANGED <<expmVars, vjpVars, batchVars, inputs, F, c1, j, m, s, i, a, max_term_notation, states, dots>>

\* expmat_der_vec_mul up to its call of expmat_vec_mul(final_matrix, state, tol)
DerBuild ==
    /\ pc = "call" /\ entry = "der"
    /\ tol' = IF IsNone(tolArg) THEN TwoM53 ELSE tolArg
    /\ A' = FinalMatrix(A0, E, sparse)
    /\ B' = AugState(v0, Len(E))
    /\ pc' = "shift"
    /\ UNCHANGED <<expmVars, vjpVars, batchVars, inputs, F, c1, j, m, s, i, a, max_term_notation, states, dots>>

\* expmat_vec_mul: the trace shift, the default tolerance, and get_s's first lines
Shift ==
    /\ pc = "shift"
    /\ A' = ShiftA(A)
    /\ tol' = IF IsNone(tol) THEN Dec1em16 ELSE tol
    /\ s' = 1
    /\ a' = ExactInfNorm(A')
    /\ pc' = "get_s"
    /\ UNCHANGED <<expmVars, vjpVars, batchVars, inputs, B, F, c1, j, m, i, max_term_notation, states, dots>>

\* one iteration of get_s's while loop.  Once a / s < 2 the loop body computes
\* max_term = 1 whatever s is, so from s = MaxS on the model keeps s where it is.
GetSIter ==
    /\ pc = "get_s"
    /\ max_term_notation' = MaxTermNotation(a, s)
    /\ IF GetSExit(a, s, tol)
       THEN /\ pc' = "series"
            /\ F' = B /\ c1' = ExactInfNormVec(B) /\ j' = 0
            /\ s' = s
       ELSE /\ s' = IF s < MaxS THEN s + 1 ELSE s
            /\ UNCHANGED <<pc, F, c1, j>>
    /\ UNCHANGED <<expmVars, vjpVars, batchVars, inputs, tol, A, B, m, i, a, states, dots>>

\* one iteration of the truncation loop of expmat_vec_mul
SeriesIter ==
    /\ pc = "series" /\ j < MaxIter
    /\ LET B1 == NextTerm(A, B, s, j)
           c2 == ExactInfNormVec(B1)
           F1 == VecAdd(F, B1)
       IN  /\ F' = F1
           /\ dots' = dots + 1
           /\ IF BelowTol(RAdd(c1, c2), tol, vexp)
              THEN /\ m' = j + 1 /\ B' = F1 /\ i' = 1 /\ pc' = "passes"
                   /\ UNCHANGED <<c1, j>>
              ELSE /\ B' = B1 /\ c1' = c2 /\ j' = j + 1
                   /\ UNCHANGED <<m, i, pc>>
    /\ UNCHANGED <<expmVars, vjpVars, batchVars, inputs, tol, A, s, a, max_term_notation, states>>

\* one iteration of the loop "for i in range(1, int(s))"
PassIter ==
    /\ pc = "passes" /\ i < s
    /\ LET r == InnerLoop(A, B, F, s, 0, m)
       IN  F' = r[2] /\ B' = r[2] /\ dots' = dots + r[3]
    /\ i' = i + 1
    /\ UNCHANGED <<expmVars, vjpVars, batchVars, inputs, pc, tol, A, c1, j, m, s, a, max_term_notation, states>>

\* return F; in expmat_der_vec_mul the result is then cut into K + 1 blocks
Return ==
    /\ pc = "passes" /\ i >= s
    /\ states' = IF entry = "der" THEN SliceStates(F, Len(v0), Len(E)) ELSE <<F>>
    /\ pc' = "done"
    /\ UNCHANGED <<expmVars, vjpVars, batchVars, inputs, tol, A, B, F, c1, j, m, s, i, a, max_term_notation, dots>>

Init == InitAct /\ IdleExpm /\ IdleVjp /\ IdleBatch

Next == CallAction \/ DerBuild \/ Shift \/ GetSIter \/ SeriesIter \/ PassIter \/ Return

\* the exponential action and the propagator derivative
Spec == Init /\ [][Next]_vars

(***************************************************************************)
(* Reference values, computed without the auxiliary matrix.                *)
(* T(X) = sum over k in 0..m of (X/s)^k / k! is the truncated series the   *)
(* loops of expmat_vec_mul apply; DT is its derivative along D.            *)
(***************************************************************************)
RECURSIVE MatPow(_, _)
MatPow(X, k) == IF k = 0 THEN IdentLike(X) ELSE MatMul(MatPow(X, k - 1), X)

RECURSIVE Coef(_, _)
\* 1 / (s^k * k!)
Coef(sc, k) == IF k = 0 THEN One ELSE RDivInt(Coef(sc, k - 1), sc * k)

RECURSIVE TmSum(_, _, _)
TmSum(X, sc, k) ==
    IF k = 0 THEN IdentLike(X)
    ELSE MatAdd(TmSum(X, sc, k - 1), MatScale(MatPow(X, k), Coef(sc, k)))

RECURSIVE PowerDeriv(_, _, _)
\* derivative of X^k along D: sum over p in 0..k-1 of X^p D X^(k-1-p)
PowerDeriv(X, D, k) ==
    IF k = 0 THEN ZerosLike(X)
    ELSE MatAdd(MatMul(PowerDeriv(X, D, k - 1), X), MatMul(MatPow(X, k - 1), D))

RECURSIVE DTmSum(_, _, _, _)
DTmSum(X, D, sc, k) ==
    IF k = 0 THEN ZerosLike(X)
    ELSE MatAdd(DTmSum(X, D, sc, k - 1), MatScale(PowerDeriv(X, D, k), Coef(sc, k)))

RECURSIVE RefPair(_, _, _, _, _)
\* <<T^t y, derivative of T^t y along D>> by the product rule
RefPair(T, DT, y, d, t) ==
    IF t = 0 THEN <<y, d>>
    ELSE RefPair(T, DT, Dot(T, y), VecAdd(Dot(T, d), Dot(DT, y)), t - 1)

\* T^s v and its derivative along D, for the trace-shifted operator X
RefState(X, v, sc, mm) ==
    RefPair(TmSum(X, sc, mm), ZerosLike(X), v, ZeroVec(Len(v)), sc)[1]
RefDeriv(X, D, v, sc, mm) ==
    RefPair(TmSum(X, sc, mm), DTmSum(X, D, sc, mm), v, ZeroVec(Len(v)), sc)[2]

\* block (bi, bj), counted from 0, of a matrix of n x n blocks
BlockOf(M, bi, bj, n) ==
    Mat([r \in 1..n |-> [c \in 1..n |-> M[bi * n + r][bj * n + c]]], n)

DerDone == pc = "done" /\ entry = "der"
ActionDone == pc = "done" /\ entry = "action"

(***************************************************************************)
(* C1 (as stated): block 0 of the result of expmat_der_vec_mul is the      *)
(* propagated state action(A, v, tol), and block i, 1 <= i <= K, is the    *)
(* directional derivative along controls[i-1].                             *)
(***************************************************************************)
C1_StateFirst ==
    (DerDone /\ Len(E) >= 1) =>
        /\ states[1] = ExpmatVecMul(A0, v0, tol, vexp).F
        /\ \A k \in 1..Len(E) : states[k + 1] = RefDeriv(ShiftA(A0), E[k], v0, s, m)

(***************************************************************************)
(* C1 (amended): the result has K+1 blocks of length N; block i, for       *)
(* 0 <= i < K, is the directional derivative along controls[i] of the      *)
(* truncated propagator action, and the last block, K, is the propagated   *)
(* state; the last block equals action(A, v, tol) whenever that call       *)
(* chooses the s and m of the augmented run.                               *)
(***************************************************************************)
C1_DerivativesFirst ==
    DerDone =>
        LET K == Len(E)
            r == ExpmatVecMul(A0, v0, tol, vexp)
        IN  /\ Len(states) = K + 1
            /\ \A k \in 1..(K + 1) : Len(states[k]) = Len(v0)
            /\ states[K + 1] = RefState(ShiftA(A0), v0, s, m)
            /\ \A k \in 1..K : states[k] = RefDeriv(ShiftA(A0), E[k], v0, s, m)
            /\ (r.s = s /\ r.m = m) => states[K + 1] = r.F

C1_Witness ==
    /\ DerDone /\ Len(E) = 2 /\ E[1] # E[2] /\ s >= 2
    /\ states[1] # states[2] /\ states[2] # states[3] /\ states[1] # ZeroVec(2)

(***************************************************************************)
(* C2 (as stated): action(A, v, tol) is exp(A) v within O(tol), also when  *)
(* trace(A) # 0.  For A = c*I + S with S nilpotent, exp(A) v is            *)
(* exp(c) * (sum over k < N of S^k v / k!), and exp(c) >= 1 + c + c^2/2;   *)
(* with no negative entries the returned value must then reach that lower  *)
(* bound up to 10^4 * tol in every entry.                                  *)
(***************************************************************************)
ExpLow(q) == RAdd(RAdd(One, q), RDivInt(RMul(q, q), 2))

C2_MatchesReference ==
    (ActionDone /\ A0 \in NilMats) =>
        LET mu  == RDivInt(Trace(A0), Len(A0))
            ref == Dot(TmSum(ShiftA(A0), 1, Len(A0)), v0)
        IN  \A k \in 1..Len(v0) :
                LET lo == RMul(ExpLow(mu), ref[k])
                IN  RLe(lo, states[1][k])
                    \/ Cmp(RSub(lo, states[1][k]), ShiftDec(tol, vexp + 1)) <= 0

(***************************************************************************)
(* C3 (as stated): for the zero matrix and every positive tol, action      *)
(* returns exactly v: the scale factor is 1 and the sum stays v.           *)
(***************************************************************************)
C3_ZeroMatrixIdentity ==
    (entry = "action" /\ A0 = ZeroMat(Len(v0)) /\ pc \in {"get_s", "series", "passes", "done"}) =>
        /\ s = 1
        /\ pc \in {"passes", "done"} => F = v0
        /\ pc = "done" => states = <<v0>>

(***************************************************************************)
(* C4 (as stated): get_s terminates for every positive tol: from the s it  *)
(* has reached, some later s passes the exit test.  From s = MaxS on the   *)
(* test no longer depends on s (a / s < 2, so max_term = 1).               *)
(***************************************************************************)
C4_GetSTerminates ==
    pc = "get_s" => \E s2 \in s..MaxS : GetSExit(a, s2, tol)

(***************************************************************************)
(* C8 (as stated): with tol = None every entry point behaves exactly as    *)
(* with tol = 2^-53.                                                       *)
(***************************************************************************)
C8_DefaultIsTwoM53 ==
    (pc = "done" /\ IsNone(tolArg)) =>
        states = IF entry = "der"
                 THEN ExpmatDerVecMul(A0, E, TwoM53, v0, vexp, sparse)
                 ELSE <<ExpmatVecMul(A0, v0, TwoM53, vexp).F>>

(***************************************************************************)
(* C9 (as stated): the number of iterations of the truncation loop is      *)
(* bounded by the limit the code computes from the order of magnitude of   *)
(* the norm, max_term_notation = floor(norm_A).                            *)
(***************************************************************************)
C9_BoundedByNormMagnitude ==
    pc \in {"passes", "done"} => m <= max_term_notation

(***************************************************************************)
(* C9 (amended): the truncation loop terminates, leaving through its only  *)
(* exit, the test (c1 + c2) < tol, and no iteration limit is computed:     *)
(* every iteration multiplies the norm of the term by at most              *)
(* a / (s * (j + 1)), with a the norm of the shifted operator, and the     *)
(* loop is left before the model stops following it (j < MaxIter).         *)
(***************************************************************************)
C9_TruncationTerminates ==
    [][/\ pc' = "series" => j' < MaxIter
       /\ (pc = "series" /\ pc' = "series") =>
              RLe(c1', RDivInt(RMul(c1, a), s * (j + 1)))]_vars

C9_Witness == pc = "passes" /\ m >= 4 /\ m > max_term_notation /\ A0 \in OscMats

(***************************************************************************)
(* C10: the auxiliary matrix is a (K+1) x (K+1) grid of N x N blocks with  *)
(* A on the diagonal, E[i] in block [i, K] for i < K and zero elsewhere,   *)
(* the same from the dense and the sparse branch; the auxiliary state is   *)
(* K zero blocks above the input state.                                    *)
(***************************************************************************)
C10_AugmentedLayout ==
    (entry = "der" /\ pc = "shift") =>
        LET K == Len(E)
            n == Len(v0)
        IN  /\ Len(A) = (K + 1) * n
            /\ \A r \in 1..Len(A) : Len(A[r]) = (K + 1) * n
            /\ \A bi \in 0..K, bj \in 0..K :
                   BlockOf(A, bi, bj, n) =
                       IF bi = bj THEN A0 ELSE IF bj = K THEN E[bi + 1] ELSE ZeroMat(n)
            /\ NpBlock(DenseGrid(A0, E), n) = Bmat(SparseGrid(A0, E), n)
            /\ Len(B) = (K + 1) * n
            /\ \A b \in 0..K :
                   SubSeq(B, b * n + 1, (b + 1) * n) = IF b = K THEN v0 ELSE ZeroVec(n)

C10_Witness ==
    /\ entry = "der" /\ pc = "shift" /\ sparse
    /\ Len(E) = 2 /\ E[1] # E[2] /\ A0 = MatCI(1, 1) /\ v0 = <<Zero, One>>

(***************************************************************************)
(* expm_pade: the dense exponential by a Pade approximant with scaling and *)
(* squaring.  The approximant's entries are not followed; r_exponent       *)
(* records which exponential the matrix r approximates.                    *)
(***************************************************************************)
PADE_ORDERS == <<3, 5, 7, 9, 13>>

DecZero == [hi |-> 0, ch |-> <<0>>]

\* THETA[p] for p in 0..13
THETA ==
    [p \in 0..13 |->
        CASE p = 3 -> [hi |-> -1, ch |-> <<149, 5585, 2179, 5829, 2000>>]
          [] p = 5 -> [hi |-> -1, ch |-> <<2539, 3983, 3006, 3230>>]
          [] p = 7 -> [hi |-> -1, ch |-> <<9504, 1789, 9616, 2932>>]
          [] p = 9 -> [hi |-> 0, ch |-> <<2, 978, 4796, 1257, 680>>]
          [] p = 13 -> [hi |-> 0, ch |-> <<5, 3719, 2035, 1148, 1520>>]
          [] OTHER -> DecZero]

\* the orders whose PADE entry is a function
PadeDefined == {3, 5, 7, 9, 13}
\* pade9 calls anp.mtamul, which autograd.numpy does not have
PadeRaises(p) == p = 9

\* anp.sum(anp.abs(a), axis=0)[c]
ColSum(X, c) == SumSeq(Vec([r \in 1..Len(X) |-> RAbs(X[r][c])], Len(X)), Len(X))
\* anp.max(anp.sum(anp.abs(a), axis=0))
OneNorm(X) == MaxSeq(Vec([c \in 1..Len(X) |-> ColSum(X, c)], Len(X)), Len(X))

RECURSIVE CeilLog2From(_, _, _)
\* the smallest k >= from with x <= t * 2^k
CeilLog2From(x, t, k) ==
    IF Cmp(RDivInt(x, 2 ^ k), t) <= 0 THEN k ELSE CeilLog2From(x, t, k + 1)

\* the logarithm rounded down instead of up
ScaleOfFloor(x) ==
    LET k == CeilLog2From(x, THETA[13], 0) IN IF k > 0 THEN k - 1 ELSE 0

\* max(0, int(anp.ceil(anp.log2(one_norm_ / THETA[13]))))
ScaleOf(x) == CeilLog2From(x, THETA[13], 0)

\* a * (2 ** -scale)
Rescale(X, k) == MatScale(X, <<1, 2 ^ k>>)

\* one-norms met by the operators of the Pade machine: one inside each
\* interval of the thresholds, then 6, 12, 24, ... which need scaling
SmallNorms == {<<1, 100>>, <<1, 5>>, <<1, 2>>, <<2, 1>>, <<5, 1>>, <<11, 2>>}
LargeNorms == {<<6 * (2 ^ k), 1>> : k \in 0..MaxDoubling} \cup {<<22, 1>>}
\* shapes of one-norm 1; the second has infinity-norm 2, the third has a sign
Shapes ==
    { <<<<One, Zero>>, <<Zero, One>>>>,
      <<<<One, One>>, <<Zero, Zero>>>>,
      <<<<Zero, <<-1, 2>>>>, <<One, <<1, 2>>>>>> }
ExpmMats == {MatScale(M, q) : M \in Shapes, q \in SmallNorms \cup LargeNorms}

InitExpm ==
    /\ em_pc = "start"
    /\ em_a0 \in ExpmMats
    /\ em_a = em_a0
    /\ one_norm_ = Zero
    /\ order_idx = 0 /\ pade_order = 0 /\ scale = 0 /\ pade_called = 0
    /\ r_exponent = Zero /\ squarings = 0

\* lines 400-403: scale = 0, one_norm_ = one_norm(a), pade_order = None
ExpmStart ==
    /\ em_pc = "start"
    /\ one_norm_' = OneNorm(em_a)
    /\ scale' = 0
    /\ pade_order' = 0
    /\ order_idx' = 1
    /\ em_pc' = "orders"
    /\ UNCHANGED <<em_a0, em_a, pade_called, r_exponent, squarings>>
    /\ UNCHANGED <<actVars, vjpVars, batchVars>>

\* one iteration of "for pade_order_ in PADE_ORDERS"; the loop has no break
OrderIter ==
    /\ em_pc = "orders"
    /\ order_idx <= Len(PADE_ORDERS)
    /\ pade_order' = IF Cmp(one_norm_, THETA[PADE_ORDERS[order_idx]]) < 0
                     THEN PADE_ORDERS[order_idx]
                     ELSE pade_order
    /\ order_idx' = order_idx + 1
    /\ UNCHANGED <<em_pc, em_a0, em_a, one_norm_, scale, pade_called, r_exponent,
                   squarings>>
    /\ UNCHANGED <<actVars, vjpVars, batchVars>>

\* lines 411-414: scaling when no threshold was met
ScaleStep ==
    /\ em_pc = "orders"
    /\ order_idx > Len(PADE_ORDERS)
    /\ IF pade_order = 0
       THEN /\ pade_order' = 13
            /\ scale' = ScaleOf(one_norm_)
            /\ em_a' = Rescale(em_a, ScaleOf(one_norm_))
       ELSE UNCHANGED <<pade_order, scale, em_a>>
    /\ em_pc' = "pade"
    /\ UNCHANGED <<em_a0, one_norm_, order_idx, pade_called, r_exponent, squarings>>
    /\ UNCHANGED <<actVars, vjpVars, batchVars>>

\* lines 417-419: u, v = PADE[pade_order](a, i); r = solve(-u + v, u + v)
PadeSolve ==
    /\ em_pc = "pade"
    /\ pade_order \in PadeDefined
    /\ pade_called' = pade_order
    /\ IF PadeRaises(pade_order)
       THEN em_pc' = "raised" /\ UNCHANGED r_exponent
       ELSE em_pc' = "square" /\ r_exponent' = <<1, 2 ^ scale>>
    /\ UNCHANGED <<em_a0, em_a, one_norm_, order_idx, pade_order, scale, squarings>>
    /\ UNCHANGED <<actVars, vjpVars, batchVars>>

\* one iteration of "for _ in range(scale): r = anp.matmul(r, r)"
SquareIter ==
    /\ em_pc = "square"
    /\ squarings < scale
    /\ squarings' = squarings + 1
    /\ r_exponent' = RMul(r_exponent, <<2, 1>>)
    /\ UNCHANGED <<em_pc, em_a0, em_a, one_norm_, order_idx, pade_order, scale,
                   pade_called>>
    /\ UNCHANGED <<actVars, vjpVars, batchVars>>

\* return r
ExpmReturn ==
    /\ em_pc = "square"
    /\ squarings >= scale
    /\ em_pc' = "done"
    /\ UNCHANGED <<em_a0, em_a, one_norm_, order_idx, pade_order, scale, pade_called,
                   r_exponent, squarings>>
    /\ UNCHANGED <<actVars, vjpVars, batchVars>>

NextExpm == ExpmStart \/ OrderIter \/ ScaleStep \/ PadeSolve \/ SquareIter \/ ExpmReturn

\* the dense exponential
ExpmInit == IdleAct /\ InitExpm /\ IdleVjp /\ IdleBatch
SpecExpm == ExpmInit /\ [][NextExpm]_vars

\* the orders whose threshold exceeds the norm x
OrdersAbove(x) == {p \in PadeDefined : Cmp(x, THETA[p]) < 0}
SmallestOf(S) == CHOOSE p \in S : \A q \in S : p <= q

(***************************************************************************)
(* C5: when some threshold exceeds the one-norm of a, the approximant that *)
(* expm_pade evaluates is the one of the smallest order whose threshold    *)
(* exceeds the norm.                                                       *)
(***************************************************************************)
C5_SmallestOrder ==
    (em_pc \in {"square", "done", "raised"} /\ OrdersAbove(one_norm_) # {}) =>
        pade_called = SmallestOf(OrdersAbove(one_norm_))

(***************************************************************************)
(* _expm_vjp_: the reverse-mode rule of the dense exponential.  Entries    *)
(* are exact fractions; the rule multiplies and adds them without          *)
(* conjugation, so complex entries follow the same arithmetic.             *)
(***************************************************************************)
\* the unit direction Eij (i, j in 0..n-1) scaled by k
UnitMat(n, ii, jj, k) ==
    Mat([r \in 1..n |-> [c \in 1..n |-> IF r = ii + 1 /\ c = jj + 1 THEN R(k) ELSE Zero]], n)

\* the matrix with the distinct entries sgn * 1, 2, ..., n*n, row by row
CountMat(n, sgn) == Mat([r \in 1..n |-> [c \in 1..n |-> R(sgn * ((r - 1) * n + c))]], n)

Upstream(n) ==
    {UnitMat(n, ii, jj, k) : ii \in 0..(n - 1), jj \in 0..(n - 1), k \in 1..MaxEntry}
        \cup {CountMat(n, 1)}
ExpMatrices(n) ==
    {UnitMat(n, ii, jj, k) : ii \in 0..(n - 1), jj \in 0..(n - 1),
                             k \in (-MaxEntry)..MaxEntry}
        \cup {CountMat(n, 1), CountMat(n, -1)}

\* exp_matrix[:, j], used in place of the row
DexpmDmijColumn(X, jj) == Vec([k \in 1..Len(X) |-> X[k][jj + 1]], Len(X))

\* dexpm_dmij_rowi = exp_matrix[j, :]
DexpmDmijRowi(X, jj) == X[jj + 1]

\* np.sum(np.multiply(x, y))
SumMultiply(x, y) == SumSeq(Vec([k \in 1..Len(x) |-> RMul(x[k], y[k])], Len(x)), Len(x))

\* m with m[i, j] = x
SetEntry(M, ii, jj, x) ==
    Mat([r \in 1..Len(M) |->
           [c \in 1..Len(M) |-> IF r = ii + 1 /\ c = jj + 1 THEN x ELSE M[r][c]]], Len(M))

ZeroCounts(n) == [r \in 1..n |-> [c \in 1..n |-> 0]]

InitVjp ==
    /\ vj_pc = "call"
    /\ matrix_size \in 1..VjpSize
    /\ dfinal_dexpm \in Upstream(matrix_size)
    /\ exp_matrix \in ExpMatrices(matrix_size)
    /\ vi = 0 /\ vj = 0
    /\ dfinal_dmatrix = <<>>
    /\ writes = <<>>

\* line 207: dfinal_dmatrix = np.zeros((matrix_size, matrix_size))
VjpCall ==
    /\ vj_pc = "call"
    /\ dfinal_dmatrix' = ZeroMat(matrix_size)
    /\ writes' = ZeroCounts(matrix_size)
    /\ vi' = 0 /\ vj' = 0
    /\ vj_pc' = "loop"
    /\ UNCHANGED <<dfinal_dexpm, exp_matrix, matrix_size>>
    /\ UNCHANGED <<actVars, expmVars, batchVars>>

\* lines 211-214: the body of the inner loop, then the step of i and j
VjpIter ==
    /\ vj_pc = "loop"
    /\ vi < matrix_size
    /\ dfinal_dmatrix' =
           SetEntry(dfinal_dmatrix, vi, vj,
                    SumMultiply(dfinal_dexpm[vi + 1], DexpmDmijRowi(exp_matrix, vj)))
    /\ writes' = [writes EXCEPT ![vi + 1][vj + 1] = @ + 1]
    /\ IF vj + 1 < matrix_size
       THEN vj' = vj + 1 /\ vi' = vi
       ELSE vj' = 0 /\ vi' = vi + 1
    /\ UNCHANGED <<vj_pc, dfinal_dexpm, exp_matrix, matrix_size>>
    /\ UNCHANGED <<actVars, expmVars, batchVars>>

\* line 218: return dfinal_dmatrix
VjpReturn ==
    /\ vj_pc = "loop"
    /\ vi >= matrix_size
    /\ vj_pc' = "done"
    /\ UNCHANGED <<dfinal_dexpm, exp_matrix, matrix_size, vi, vj, dfinal_dmatrix, writes>>
    /\ UNCHANGED <<actVars, expmVars, batchVars>>

NextVjp == VjpCall \/ VjpIter \/ VjpReturn

\* the reverse-mode rule
VjpInit == IdleAct /\ IdleExpm /\ InitVjp /\ IdleBatch
SpecVjp == VjpInit /\ [][NextVjp]_vars

\* sum over p and q of G[p, q] * D[p, q]
Contract(G, D) ==
    SumSeq(Vec([p \in 1..Len(G) |-> SumMultiply(G[p], D[p])], Len(G)), Len(G))

(***************************************************************************)
(* C7: the matrix the reverse-mode rule returns has, at every (i, j), the  *)
(* contraction of the upstream gradient with Eij * exp(A), which is the    *)
(* sum over k of G[i, k] * exp(A)[j, k]; the double loop assigns every     *)
(* entry exactly once.                                                     *)
(***************************************************************************)
C7_VjpContraction ==
    vj_pc = "done" =>
        \A ii \in 0..(matrix_size - 1), jj \in 0..(matrix_size - 1) :
            /\ dfinal_dmatrix[ii + 1][jj + 1] =
                   Contract(dfinal_dexpm,
                            MatMul(UnitMat(matrix_size, ii, jj, 1), exp_matrix))
            /\ dfinal_dmatrix[ii + 1][jj + 1] =
                   SumSeq(Vec([k \in 1..matrix_size |->
                                 RMul(dfinal_dexpm[ii + 1][k], exp_matrix[jj + 1][k])],
                              matrix_size), matrix_size)
            /\ writes[ii + 1][jj + 1] = 1

C7_Witness ==
    /\ vj_pc = "done" /\ matrix_size = VjpSize
    /\ dfinal_dexpm = CountMat(matrix_size, 1)
    /\ exp_matrix = CountMat(matrix_size, -1)
    /\ dfinal_dmatrix[1][VjpSize] # MatMul(dfinal_dexpm, exp_matrix)[1][VjpSize]

(***************************************************************************)
(* TargetStateInfidelityTime.gradient and update_state_forw.  With two or  *)
(* more states the calls go through the pool's map: every call completes   *)
(* at some time of its own, the pool keeps each result at the index of its *)
(* input and map returns the list when all calls have completed.  States   *)
(* have real entries; cost_multiplier and cost_eval_count are 1.           *)
(***************************************************************************)
BatchA == MatCI(0, 1)
BatchE == Sym
BatchTol == TwoM53
BatchVecs == {<<Zero, One>>, <<<<7, 10>>, Zero>>}
StateLists == UNION {[1..k -> BatchVecs] : k \in 1..MaxStates}
\* the lists of k equal states
EqualLists(k) == {[idx \in 1..k |-> v] : v \in BatchVecs}

\* block_fre(A, E, tol, state): the derivative along E, then the propagated state
BlockFre(X, D, t, st) == ExpmatDerVecMul(X, <<D>>, t, st, 0, FALSE)

\* s_a_s_multi(A, tol, state): the propagated state
S_a_s_multi(X, t, st) == ExpmatVecMul(X, st, t, 0).F

\* krylov(A, tol, states): every state propagated
Krylov(X, t, sts) == Vec([k \in 1..Len(sts) |-> S_a_s_multi(X, t, sts[k])], Len(sts))

\* func(state) of the method
Func(mth, st) ==
    IF mth = "gradient" THEN BlockFre(BatchA, BatchE, BatchTol, st)
    ELSE S_a_s_multi(BatchA, BatchTol, st)

\* states_mul filled from the last state to the first
StatesMulReversed(sts) == Vec([k \in 1..Len(sts) |-> sts[Len(sts) + 1 - k]], Len(sts))

\* states_mul = []; for i in range(len(x)): states_mul.append(x[i])
StatesMul(sts) == Vec([k \in 1..Len(sts) |-> sts[k]], Len(sts))

\* for i in range(len(states)): out[i] = states[i][part]
CopyPart(sts, part) == Vec([k \in 1..Len(sts) |-> sts[k][part + 1]], Len(sts))

RECURSIVE GradSum(_, _, _, _)
\* the loop "for i in range(self.state_count): grads = grads + ..." up to i = k - 1
GradSum(bs, fs, nrp, k) ==
    IF k = 0 THEN Zero
    ELSE RAdd(GradSum(bs, fs, nrp, k - 1),
              RDivInt(RMul(R(-2), SumMultiply(bs[k], fs[k])),
                      IF nrp THEN Len(fs) ELSE Len(fs) * Len(fs)))

NoResult == <<>>

InitBatch ==
    /\ bt_pc = "call"
    /\ method \in {"gradient", "update_state_forw"}
    /\ back_states \in StateLists
    /\ final_states \in IF method = "gradient"
                       THEN EqualLists(Len(back_states))
                       ELSE {back_states}
    /\ neglect_relative_phase \in IF method = "gradient" THEN BOOLEAN ELSE {FALSE}
    /\ given_states = IF method = "gradient" THEN back_states ELSE final_states
    /\ states_mul = <<>> /\ pending = {} /\ slots = <<>> /\ order = <<>>
    /\ map_states = <<>> /\ b_state = <<>> /\ new_state = <<>>
    /\ grads = Zero

\* len(self.final_states) >= 2: states_mul is built and handed to the pool's map
Dispatch ==
    /\ bt_pc = "call"
    /\ Len(final_states) >= 2
    /\ states_mul' = StatesMul(IF method = "gradient" THEN back_states ELSE final_states)
    /\ pending' = 1..Len(states_mul')
    /\ slots' = [k \in 1..Len(states_mul') |-> NoResult]
    /\ order' = <<>>
    /\ bt_pc' = "mapping"
    /\ UNCHANGED <<method, back_states, final_states, map_states, b_state, new_state,
                   neglect_relative_phase, grads, given_states>>
    /\ UNCHANGED <<actVars, expmVars, vjpVars>>

\* a worker completes the call on states_mul[k]
WorkerDone ==
    /\ bt_pc = "mapping"
    /\ \E k \in pending :
           /\ slots' = [slots EXCEPT ![k] = Func(method, states_mul[k])]
           /\ pending' = pending \ {k}
           /\ order' = Append(order, k)
    /\ UNCHANGED <<bt_pc, method, back_states, final_states, states_mul, map_states,
                   b_state, new_state, neglect_relative_phase, grads, given_states>>
    /\ UNCHANGED <<actVars, expmVars, vjpVars>>

\* map returns; gradient lines 142-156, update_state_forw line 128
Collect ==
    /\ bt_pc = "mapping"
    /\ pending = {}
    /\ map_states' = slots
    /\ IF method = "gradient"
       THEN /\ b_state' = CopyPart(slots, 0)
            /\ new_state' = CopyPart(slots, 1)
            /\ grads' = GradSum(b_state', final_states, neglect_relative_phase,
                                Len(final_states))
            /\ UNCHANGED final_states
       ELSE /\ final_states' = slots
            /\ UNCHANGED <<b_state, new_state, grads>>
    /\ bt_pc' = "done"
    /\ UNCHANGED <<method, back_states, states_mul, pending, slots, order,
                   neglect_relative_phase, given_states>>
    /\ UNCHANGED <<actVars, expmVars, vjpVars>>

\* a single state: the calls are made in line
Inline ==
    /\ bt_pc = "call"
    /\ Len(final_states) < 2
    /\ IF method = "gradient"
       THEN LET res == Vec([k \in 1..Len(back_states) |->
                              BlockFre(BatchA, BatchE, BatchTol, back_states[k])],
                           Len(back_states))
            IN  /\ new_state' = CopyPart(res, 1)
                /\ b_state' = res[Len(res)][1]
                /\ grads' = GradSum(CopyPart(res, 0), final_states,
                                    neglect_relative_phase, Len(final_states))
                /\ UNCHANGED final_states
       ELSE /\ final_states' = Krylov(BatchA, BatchTol, final_states)
            /\ UNCHANGED <<b_state, new_state, grads>>
    /\ bt_pc' = "done"
    /\ UNCHANGED <<method, back_states, states_mul, pending, slots, order, map_states,
                   neglect_relative_phase, given_states>>
    /\ UNCHANGED <<actVars, expmVars, vjpVars>>

NextBatch == Dispatch \/ WorkerDone \/ Collect \/ Inline

\* the batch methods of the cost
BatchInit == IdleAct /\ IdleExpm /\ IdleVjp /\ InitBatch
SpecBatch == BatchInit /\ [][NextBatch]_vars

BatchDone == bt_pc = "done" /\ Len(given_states) >= 2

(***************************************************************************)
(* C6: with two or more states, whatever the order in which the calls      *)
(* complete, the result kept at index i is the result of the call on the   *)
(* state at index i, and there are as many results as states.              *)
(***************************************************************************)
C6_OrderPreserved ==
    BatchDone =>
        /\ Len(map_states) = Len(given_states)
        /\ \A k \in 1..Len(given_states) : map_states[k] = Func(method, given_states[k])
        /\ method = "gradient" =>
               /\ Len(b_state) = Len(given_states) /\ Len(new_state) = Len(given_states)
               /\ \A k \in 1..Len(given_states) :
                      /\ b_state[k] =
                             BlockFre(BatchA, BatchE, BatchTol, given_states[k])[1]
                      /\ new_state[k] =
                             BlockFre(BatchA, BatchE, BatchTol, given_states[k])[2]
        /\ method = "update_state_forw" =>
               /\ Len(final_states) = Len(given_states)
               /\ \A k \in 1..Len(given_states) :
                      final_states[k] = S_a_s_multi(BatchA, BatchTol, given_states[k])

C6_Witness ==
    /\ BatchDone /\ method = "gradient"
    /\ Len(given_states) = MaxStates
    /\ order[1] = MaxStates /\ order[MaxStates] = 1
    /\ given_states[1] # given_states[MaxStates]
    /\ new_state[1] # new_state[MaxStates]

(***************************************************************************)
(* C11 (as stated): expmat_der_vec_mul returns the vectors for the         *)
(* gradient first and the updated state last: block i, 0 <= i < K, is the  *)
(* derivative along E[i], block K is exp(A) applied to the input state,    *)
(* and for K = 1 the result unpacks into exactly two vectors.  Block K is  *)
(* compared with exp(A) v as in C2: for A = c*I + S with S nilpotent and   *)
(* no negative entries it must reach (1 + c + c^2/2) * exp(S) v up to      *)
(* 10^4 * tol in every entry.                                              *)
(***************************************************************************)
C11_UpdatedStateLast ==
    DerDone =>
        LET K   == Len(E)
            mu  == RDivInt(Trace(A0), Len(A0))
            ref == Dot(TmSum(ShiftA(A0), 1, Len(A0)), v0)
        IN  /\ Len(states) = K + 1
            /\ \A k \in 1..K : states[k] = RefDeriv(ShiftA(A0), E[k], v0, s, m)
            /\ K = 1 => Len(states) = 2
            /\ A0 \in NilMats =>
                   \A k \in 1..Len(v0) :
                       LET lo == RMul(ExpLow(mu), ref[k])
                       IN  RLe(lo, states[K + 1][k])
                           \/ Cmp(RSub(lo, states[K + 1][k]),
                                  ShiftDec(tol, vexp + 1)) <= 0

(***************************************************************************)
(* The truncated series by Horner's rule:                                  *)
(* T y = y + X/(s*1) (y + X/(s*2) (y + ... (y + X/(s*m) y))).              *)
(***************************************************************************)
RECURSIVE HornerFrom(_, _, _, _, _)
HornerFrom(X, y, sc, k, mm) ==
    IF k > mm THEN y
    ELSE VecAdd(y, VecDivInt(Dot(X, HornerFrom(X, y, sc, k + 1, mm)), sc * k))

RECURSIVE SeriesPower(_, _, _, _, _)
\* T_m(X / s) applied t times to y
SeriesPower(X, y, sc, mm, t) ==
    IF t = 0 THEN y ELSE SeriesPower(X, HornerFrom(X, y, sc, 1, mm), sc, mm, t - 1)

\* the vector expmat_vec_mul was called on
StartVec == IF entry = "der" THEN AugState(v0, Len(E)) ELSE v0

(***************************************************************************)
(* C12: with s and m fixed by the first pass, expmat_vec_mul applies the   *)
(* truncated series T_m(A/s) (A its shifted operator) s times in all: after*)
(* i passes F is T_m(A/s)^i v, B is re-seeded with F, and i * m products   *)
(* A.dot(B) were made; the value returned is T_m(A/s)^s v after s * m      *)
(* products, and for s = 1 no further pass runs.                           *)
(***************************************************************************)
C12_SeriesAppliedSTimes ==
    /\ pc = "passes" =>
           /\ i >= 1 /\ (i <= s \/ s = 1)
           /\ s = 1 => i = 1
           /\ F = SeriesPower(A, StartVec, s, m, i)
           /\ B = F
           /\ dots = i * m
    /\ pc = "done" =>
           /\ F = SeriesPower(A, StartVec, s, m, s)
           /\ dots = s * m
           /\ states = IF entry = "der" THEN SliceStates(F, Len(v0), Len(E)) ELSE <<F>>

C12_Witness ==
    /\ pc = "done" /\ s >= 3 /\ m >= 2 /\ dots = s * m
    /\ F # StartVec
    /\ F # SeriesPower(A, StartVec, s, m, s - 1)

(***************************************************************************)
(* C13: when the one-norm of a meets no threshold, scale is the smallest   *)
(* s >= 0 with norm * 2^-s <= THETA[13], the approximant of order 13 is    *)
(* evaluated on a * 2^-s, and r is squared exactly s times; when some      *)
(* threshold is met, scale is 0, a is not rescaled and r is not squared.   *)
(***************************************************************************)
C13_ScalingAndSquaring ==
    em_pc \in {"pade", "square", "done"} =>
        /\ squarings <= scale
        /\ em_pc = "pade" => (pade_called = 0 /\ squarings = 0)
        /\ em_pc = "done" => (squarings = scale /\ r_exponent = One)
        /\ IF OrdersAbove(one_norm_) = {}
           THEN /\ pade_order = 13
                /\ em_pc # "pade" => pade_called = 13
                /\ Cmp(RDivInt(one_norm_, 2 ^ scale), THETA[13]) <= 0
                /\ scale > 0 => Cmp(RDivInt(one_norm_, 2 ^ (scale - 1)), THETA[13]) > 0
                /\ em_a = MatScale(em_a0, <<1, 2 ^ scale>>)
                /\ Cmp(OneNorm(em_a), THETA[13]) <= 0
                /\ em_pc # "pade" => r_exponent = RMul(<<1, 2 ^ scale>>, <<2 ^ squarings, 1>>)
           ELSE /\ scale = 0
                /\ em_a = em_a0
                /\ squarings = 0
                /\ em_pc # "pade" => r_exponent = One

C13_Witness ==
    /\ em_pc = "done" /\ OrdersAbove(one_norm_) = {}
    /\ scale = 3 /\ squarings = 3 /\ em_a # em_a0 /\ pade_called = 13

\* the scalars c of the operators A + c*I compared with A
ShiftScalars == {R(-1), <<1, 2>>, One, R(3)}

\* A + c*I
AddScalar(X, c) == MatAdd(X, MatScale(IdentLike(X), c))

=============================================================================
